---- MODULE Spec2Model ----
(***************************************************************************)
(* A model of lobot.py: the session loop (fetch the instance directory,    *)
(* display it, ask for an instance, build the action menu, dispatch one    *)
(* action, ENTER to reload), the action handlers, the price lookup and the *)
(* cloud provider the handlers talk to.                                    *)
(*                                                                         *)
(* Every handler is one action.  The calls a handler makes to the outside  *)
(* (provider API, prompts, file-system checks, ssh/scp subprocesses) are   *)
(* recorded, in program order and with the answer each got, in `trace`.    *)
(* An exception that leaves a handler is recorded in `raised`.             *)
(***************************************************************************)
EXTENDS Integers, Sequences, FiniteSets, TLC

\* -------------------------------------------------------------- bounds
\* State changes other actors make to the fleet between two directory fetches.
MaxExternal == 1
\* Products one pricing query returns.
MaxProducts == 1

\* ----------------------------------------------------------- constants
None == "None"

Ids == {"i-1", "i-2"}

\* The instance states of the provider, and "absent": the instance is gone
\* (a terminated instance is listed for a while, then disappears).
ProviderStates == {"pending", "running", "stopping", "stopped", "shutting-down", "terminated"}
Absent == "absent"

\* Region codes: two with an entry in REGION_TO_READABLE_NAME, one without.
Regions == {"eu-west-1", "us-east-1", "me-south-1"}

REGION_TO_READABLE_NAME ==
    [r \in {"eu-west-1", "us-east-1"} |->
        IF r = "eu-west-1" THEN "EU (Ireland)" ELSE "US East (N. Virginia)"]

\* Two of the four user names of USERNAME_TO_AMI; no handler looks at which
\* one is set.
USERNAME_TO_AMI == {"ec2-user", "ubuntu"}

\* instance_types.cfg: the types offered by "Change type".
recommended_instance_types == {"t3.nano", "t3.micro"}

\* Key pairs an instance can have been launched with, and the credential
\* files in keys/: demo.pem is there, other.pem is not.
KeyNames == {"demo", "other"}
KeyFiles == {"demo"}

\* Names an operator types at the rename prompt.
Names == {"web"}

\* Tags of an instance: no Tags key at all, Tags without a Name tag, or the
\* value of the Name tag.
NoTags == "<no Tags>"
NoNameTag == "<no Name tag>"

VARIABLES
    remote,           \* the provider's truth: [Ids -> [State, Addr, InstanceType, KeyName, Tags]]
    fleetRegion,      \* the region the instances live in (the others are empty)
    ext,              \* external changes since the last fetch
    GLOBAL_CONFIG,    \* [aws_region, aws_username, load_prices]
    pc,               \* position of the session loop
    instances,        \* the records of the last get_current_instances
    priceLookup,      \* the last call of load_prices: what was asked, what came of it
    chosen_instance,  \* the record picked at ask_instance, or None
    options,          \* the action menu built for chosen_instance
    chosen_action,    \* the action dispatched in this iteration, or None
    trace,            \* outside calls of the last handler, in order
    result,           \* how the last handler returned
    raised            \* the exception that left the last handler, or None

vars == <<remote, fleetRegion, ext, GLOBAL_CONFIG, pc, instances, priceLookup,
          chosen_instance, options, chosen_action, trace, result, raised>>

envVars == <<remote, fleetRegion, ext>>
loopVars == <<GLOBAL_CONFIG, pc, instances, priceLookup, chosen_instance, options,
              chosen_action, trace, result, raised>>

\* One outside call: what was called, how, and what came back.
Ev(op, mode, resp) == [op |-> op, mode |-> mode, resp |-> resp]

\* ------------------------------------------------------------ provider
IdSeq == <<"i-1", "i-2">>

InstanceTypes == recommended_instance_types

\* botocore exceptions.  ClientError is an error answer of the service; a
\* BotoCoreError (no connection, WaiterError) is not a ClientError.
ClientErrorCodes == {"DryRunOperation", "UnauthorizedOperation",
                     "InvalidInstanceID.NotFound", "IncorrectInstanceState",
                     "InvalidAMIID.NotFound"}
EndpointConnectionError == "EndpointConnectionError"
WaiterError == "WaiterError"

IsClientError(e) == e \in ClientErrorCodes

RemoteRecords ==
    [State : ProviderStates \cup {Absent}, Addr : BOOLEAN, InstanceType : InstanceTypes,
     KeyName : KeyNames, Tags : {NoTags, NoNameTag} \cup Names]

\* The instances the provider lists for a region, in reservation order.
Listed(region) ==
    IF region = fleetRegion
    THEN SelectSeq(IdSeq, LAMBDA i : remote[i].State # Absent)
    ELSE <<>>

\* What another actor (the console, the instance itself, the provider) can do
\* to an instance: the provider's instance lifecycle.
ExternalSteps(r) ==
    CASE r.State = "pending"       -> {[r EXCEPT !.State = "running", !.Addr = a] : a \in BOOLEAN}
                                      \cup {[r EXCEPT !.State = "shutting-down", !.Addr = FALSE]}
      [] r.State = "running"       -> {[r EXCEPT !.State = "stopping"],
                                       [r EXCEPT !.State = "shutting-down"]}
      [] r.State = "stopping"      -> {[r EXCEPT !.State = "stopped", !.Addr = FALSE]}
      [] r.State = "stopped"       -> {[r EXCEPT !.State = "pending"],
                                       [r EXCEPT !.State = "shutting-down"]}
      [] r.State = "shutting-down" -> {[r EXCEPT !.State = "terminated", !.Addr = FALSE]}
      [] r.State = "terminated"    -> {[r EXCEPT !.State = Absent]}
      [] OTHER                     -> {}

\* --------------------------------------------------------------- prices
\* A product of the price list: with on-demand terms or without, at a price
\* of zero or not.
Products ==
    {p \in [instanceType : InstanceTypes, OnDemand : BOOLEAN, USD : {0, 5}] :
        ~p.OnDemand => p.USD = 0}

RECURSIVE SeqsUpTo(_, _)
SeqsUpTo(S, n) ==
    IF n = 0 THEN {<<>>}
    ELSE SeqsUpTo(S, n - 1) \cup {Append(q, x) : q \in SeqsUpTo(S, n - 1), x \in S}

\* pricing.get_products for one instance type: the products of that type, or
\* no answer at all.
PriceResponses(t) ==
    {[error |-> None, PriceList |-> q] :
        q \in {q \in SeqsUpTo(Products, MaxProducts) :
                 \A k \in 1..Len(q) : q[k].instanceType = t}}
    \cup {[error |-> EndpointConnectionError, PriceList |-> <<>>]}

PriceAnswers == [t \in InstanceTypes |-> PriceResponses(t)]

EmptyMap == [t \in {} |-> 0]

\* Lines 100-121: the last on-demand product with a non-zero price of each
\* type is that type's entry.
RECURSIVE PriceMapOf(_, _)
PriceMapOf(product_list, price_map) ==
    IF product_list = <<>> THEN price_map
    ELSE LET product == Head(product_list)
             rest == Tail(product_list)
         IN  IF ~product.OnDemand THEN PriceMapOf(rest, price_map)
             ELSE IF product.USD = 0 THEN PriceMapOf(rest, price_map)
             ELSE PriceMapOf(rest,
                    [t \in DOMAIN price_map \cup {product.instanceType} |->
                        IF t = product.instanceType THEN product.USD ELSE price_map[t]])

\* Line 91: the location name of a region code, or the KeyError of line 93.
RegionKnown(region_name) == region_name \in DOMAIN REGION_TO_READABLE_NAME

\* Lines 88-98, from the k-th requested type on: look the region up, then
\* query the type.  [raised, queries, product_list].
RECURSIVE PriceLoop(_, _, _, _, _, _)
PriceLoop(used_instance_types, k, region_name, catalog, queries, product_list) ==
    IF k > Len(used_instance_types)
    THEN [raised |-> None, queries |-> queries, product_list |-> product_list]
    ELSE LET used_type == used_instance_types[k] IN
         IF ~RegionKnown(region_name)
         THEN [raised |-> "KeyError", queries |-> queries, product_list |-> product_list]
         ELSE IF catalog[used_type].error # None
         THEN [raised |-> catalog[used_type].error, queries |-> Append(queries, used_type),
               product_list |-> product_list]
         ELSE PriceLoop(used_instance_types, k + 1, region_name, catalog,
                        Append(queries, used_type), product_list \o catalog[used_type].PriceList)

NoLookup == [called |-> FALSE]

\* Lines 82-123.  [called, types, region, raised, queries, price_map]
load_prices(used_instance_types, region_name, catalog) ==
    LET l == PriceLoop(used_instance_types, 1, region_name, catalog, <<>>, <<>>) IN
    [called |-> TRUE, types |-> used_instance_types, region |-> region_name,
     raised |-> l.raised, queries |-> l.queries,
     price_map |-> IF l.raised = None THEN PriceMapOf(l.product_list, EmptyMap) ELSE EmptyMap]

\* Lines 125-132 with a zero price as the default of price_map.get.
merge_price_map_ZeroDefault(insts, price_map) ==
    [k \in 1..Len(insts) |->
        IF insts[k].InstanceType \in DOMAIN price_map
        THEN [insts[k] EXCEPT !.pricePerUnit = <<price_map[insts[k].InstanceType]>>]
        ELSE [insts[k] EXCEPT !.pricePerUnit = <<0>>]]

\* Lines 125-132.  A record without price fields carries <<>> in their
\* place, one with them the price.
merge_price_map(insts, price_map) ==
    [k \in 1..Len(insts) |->
        IF insts[k].InstanceType \in DOMAIN price_map
        THEN [insts[k] EXCEPT !.pricePerUnit = <<price_map[insts[k].InstanceType]>>]
        ELSE insts[k]]

\* ------------------------------------------------------------ directory
\* datetime.timedelta values: now - LaunchTime of a listed instance.
Elapsed == {[days |-> 1, seconds |-> 3660]}
ZeroDelta == [days |-> 0, seconds |-> 0]

timedelta_hours_minutes(timedelta) ==
    <<timedelta.days * 24 + timedelta.seconds \div 3600, (timedelta.seconds \div 60) % 60>>

\* Lines 161-165 without the state test: the time since LaunchTime whatever
\* the state.
UptimeOf_AlwaysElapsed(state, up) == timedelta_hours_minutes(up)

\* Lines 161-165: only a running instance's LaunchTime is read.
UptimeOf(state, up) ==
    IF state # "running"
    THEN timedelta_hours_minutes(ZeroDelta)
    ELSE timedelta_hours_minutes(up)

\* Lines 153-185: the record of one raw instance.
Normalize(i, r, up) ==
    [InstanceId      |-> i,
     State           |-> r.State,
     PublicIpAddress |-> IF r.Addr THEN "ip" ELSE None,
     InstanceType    |-> r.InstanceType,
     KeyName         |-> r.KeyName,
     Uptime          |-> UptimeOf(r.State, up),
     Name            |-> IF r.Tags = NoTags THEN ""
                         ELSE IF r.Tags = NoNameTag THEN None
                         ELSE r.Tags,
     pricePerUnit    |-> <<>>]

RECURSIVE UsedTypes(_, _)
UsedTypes(insts, used_types) ==
    IF insts = <<>> THEN used_types
    ELSE LET t == Head(insts).InstanceType IN
         UsedTypes(Tail(insts),
                   IF \E k \in 1..Len(used_types) : used_types[k] = t
                   THEN used_types ELSE Append(used_types, t))

\* Lines 140-190.  [raised, instances, lookup]
get_current_instances(include_prices, region_name, describe, up, catalog) ==
    IF describe # "ok"
    THEN [raised |-> describe, instances |-> <<>>, lookup |-> NoLookup]
    ELSE LET ids == Listed(region_name)
             insts == [k \in 1..Len(ids) |-> Normalize(ids[k], remote[ids[k]], up[ids[k]])]
             used_types == UsedTypes(insts, <<>>)
         IN  IF include_prices
             THEN LET p == load_prices(used_types, region_name, catalog) IN
                  [raised |-> p.raised, lookup |-> p,
                   instances |-> IF p.raised = None
                                 THEN merge_price_map(insts, p.price_map) ELSE <<>>]
             ELSE [raised |-> None, instances |-> insts, lookup |-> NoLookup]

\* Lines 314-343: the table.  A region without a readable name is a KeyError
\* (316-320).  The header is the key list of the first record (323); a record
\* with another number of keys, one with price fields next to one without,
\* is a row PrettyTable.add_row refuses with an exception (328).
display_instances(insts, region_name) ==
    IF ~RegionKnown(region_name) THEN "KeyError"
    ELSE IF \E k \in 1..Len(insts) :
                (insts[k].pricePerUnit = <<>>) # (insts[1].pricePerUnit = <<>>)
    THEN "Exception"
    ELSE None

\* ---------------------------------------------------------- session loop
NoRecord == [InstanceId |-> None]

\* The fleet at the start of a session.  i-1 is in any state of its life,
\* without a Name tag or without tags; i-2 is an instance of another type that
\* was terminated before the session and is still listed, or is gone already.
InitialFleets ==
    {f \in [Ids -> RemoteRecords] :
        /\ f["i-1"].Addr => f["i-1"].State \in {"running", "stopping", "shutting-down"}
        /\ f["i-1"].InstanceType = "t3.nano"
        /\ f["i-1"].Tags \in {NoTags, NoNameTag}
        /\ f["i-2"] \in {[State |-> st, Addr |-> FALSE, InstanceType |-> "t3.micro",
                          KeyName |-> "other", Tags |-> NoTags]
                            : st \in {"terminated", Absent}}}

Init ==
    /\ remote \in InitialFleets
    /\ fleetRegion \in {"eu-west-1", "me-south-1"}
    /\ ext = 0
    /\ GLOBAL_CONFIG \in [aws_region : Regions, aws_username : {"ec2-user"},
                          load_prices : BOOLEAN]
    /\ pc = "refresh"
    /\ instances = <<>>
    /\ priceLookup = NoLookup
    /\ chosen_instance = NoRecord
    /\ options = {}
    /\ chosen_action = None
    /\ trace = <<>>
    /\ result = None
    /\ raised = None

\* The answers the provider can give to one directory fetch: the time since
\* LaunchTime of each listed instance, running or not, and the price list of
\* each listed type (answers nobody asks for are held fixed).
UpChoices(region_name) ==
    {up \in [Ids -> Elapsed \cup {ZeroDelta}] :
        \A i \in Ids :
            (up[i] # ZeroDelta) <=>
            (region_name = fleetRegion /\ remote[i].State # Absent)}

CatalogChoices(include_prices, region_name) ==
    LET asked == IF include_prices /\ RegionKnown(region_name) /\ region_name = fleetRegion
                 THEN {remote[i].InstanceType : i \in {j \in Ids : remote[j].State # Absent}}
                 ELSE {}
    IN  {[t \in InstanceTypes |->
            IF t \in asked THEN c[t] ELSE [error |-> None, PriceList |-> <<>>]] :
            c \in {c \in [asked -> UNION {PriceAnswers[t] : t \in asked}] :
                     \A t \in asked : c[t] \in PriceAnswers[t]}}

\* Lines 522-528: fetch the directory and display it.
Refresh ==
    /\ pc = "refresh"
    /\ \E describe \in {"ok", EndpointConnectionError} :
       \E up \in IF describe = "ok" THEN UpChoices(GLOBAL_CONFIG.aws_region)
                 ELSE {[i \in Ids |-> ZeroDelta]} :
       \E catalog \in IF describe = "ok"
                      THEN CatalogChoices(GLOBAL_CONFIG.load_prices, GLOBAL_CONFIG.aws_region)
                      ELSE CatalogChoices(FALSE, GLOBAL_CONFIG.aws_region) :
          LET g == get_current_instances(GLOBAL_CONFIG.load_prices, GLOBAL_CONFIG.aws_region,
                                         describe, up, catalog)
              d == IF g.raised = None
                   THEN display_instances(g.instances, GLOBAL_CONFIG.aws_region)
                   ELSE g.raised
          IN  /\ instances' = IF g.raised = None THEN g.instances ELSE instances
              /\ priceLookup' = g.lookup
              /\ raised' = d
              /\ pc' = IF d = None THEN "ask_instance" ELSE "crashed"
    /\ ext' = 0
    /\ UNCHANGED <<remote, fleetRegion, GLOBAL_CONFIG, chosen_instance, options, chosen_action,
                   trace, result>>

\* Line 445-446: the choice list concatenates every record's Name; a record
\* whose Name is None (Tags without a Name tag) makes that a TypeError.
ask_instance_raises(insts) == \E k \in 1..Len(insts) : insts[k].Name = None

SHELL == "Open shell (SSH)"
JUPYTER == "Jupyter"
DEPLOY == "Deploy data to"
FETCH == "Fetch data from"
NOTHING == "Nothing to do here."

\* Lines 544-561 with the test of line 549 cut down to the state.
Menu_NoAddressTest(inst) ==
    IF inst.State = "running"
    THEN {"Details", SHELL, JUPYTER, DEPLOY, FETCH, "Change name", "Stop"}
    ELSE IF inst.State \in {"terminated", "terminating"}
    THEN {NOTHING}
    ELSE {"Details", "Start", "Change name", "Change type"}

\* Lines 544-561: the action menu of a record.
Menu(inst) ==
    IF inst.State = "running" /\ inst.PublicIpAddress # None
    THEN {"Details", SHELL, JUPYTER, DEPLOY, FETCH, "Change name", "Stop"}
    ELSE IF inst.State \in {"terminated", "terminating"}
    THEN {NOTHING}
    ELSE {"Details", "Start", "Change name", "Change type"}

\* Lines 530, 539-562: an instance is chosen and its menu built.
ChooseInstance ==
    /\ pc = "ask_instance"
    /\ IF ask_instance_raises(instances)
       THEN /\ raised' = "TypeError"
            /\ pc' = "crashed"
            /\ UNCHANGED <<chosen_instance, options>>
       ELSE \E k \in 1..Len(instances) :
            /\ chosen_instance' = instances[k]
            /\ options' = Menu(instances[k])
            /\ pc' = "ask_action"
            /\ UNCHANGED raised
    /\ UNCHANGED <<envVars, GLOBAL_CONFIG, instances, priceLookup, chosen_action, trace, result>>

\* Lines 531-534 and change_region, 456-472.
ChangeRegion ==
    /\ pc = "ask_instance"
    /\ ~ask_instance_raises(instances)
    /\ \E known_regions \in SUBSET Regions :
          /\ known_regions # {}
          /\ IF \E r \in known_regions : ~RegionKnown(r)
             THEN /\ raised' = "KeyError"
                  /\ pc' = "crashed"
                  /\ UNCHANGED GLOBAL_CONFIG
             ELSE \E chosen_region \in known_regions :
                  /\ GLOBAL_CONFIG' = [GLOBAL_CONFIG EXCEPT !.aws_region = chosen_region]
                  /\ pc' = "refresh"
                  /\ UNCHANGED raised
    /\ UNCHANGED <<envVars, instances, priceLookup, chosen_instance, options, chosen_action,
                   trace, result>>

\* Lines 535-538 and change_remote_username, 296-306.
ChangeUsername ==
    /\ pc = "ask_instance"
    /\ ~ask_instance_raises(instances)
    /\ \E chosen_name \in USERNAME_TO_AMI :
          GLOBAL_CONFIG' = [GLOBAL_CONFIG EXCEPT !.aws_username = chosen_name]
    /\ pc' = "refresh"
    /\ UNCHANGED <<envVars, instances, priceLookup, chosen_instance, options, chosen_action,
                   trace, result, raised>>

\* Another actor changes an instance between the fetch and the action: while
\* the loop waits at the action prompt.
External ==
    /\ pc = "ask_action"
    /\ ext < MaxExternal
    /\ \E i \in Ids : \E r \in ExternalSteps(remote[i]) :
          remote' = [remote EXCEPT ![i] = r]
    /\ ext' = ext + 1
    /\ UNCHANGED <<fleetRegion, loopVars>>

\* Lines 584-585 followed by the instance prompt of line 530 instead of the
\* fetch of line 525: the directory of the last iteration is used again.
Reload_NoFetch ==
    /\ pc = "reload"
    /\ pc' = "ask_instance"
    /\ chosen_instance' = NoRecord
    /\ options' = {}
    /\ chosen_action' = None
    /\ trace' = <<>>
    /\ result' = None
    /\ UNCHANGED <<envVars, GLOBAL_CONFIG, instances, priceLookup, raised>>

\* Lines 584-585: ENTER to reload.  The iteration is over: what it chose and
\* what its handler did is forgotten.
Reload ==
    /\ pc = "reload"
    /\ pc' = "refresh"
    /\ chosen_instance' = NoRecord
    /\ options' = {}
    /\ chosen_action' = None
    /\ trace' = <<>>
    /\ result' = None
    /\ UNCHANGED <<envVars, GLOBAL_CONFIG, instances, priceLookup, raised>>

\* ------------------------------------------------------------- handlers
\* One way a handler can run: its outside calls, how it returned, the
\* exception that left it, and the provider's truth afterwards.
Run(tr, res, ex, rem) == [trace |-> tr, result |-> res, raised |-> ex, remote |-> rem]

\* The exception class of a failed provider call.
ExcOf(e) == IF IsClientError(e) THEN "ClientError" ELSE e

\* A DryRun=True call never succeeds: with the permission it answers
\* DryRunOperation, without it UnauthorizedOperation.
DryRunAnswers(i, rem) ==
    {"DryRunOperation", "UnauthorizedOperation", EndpointConnectionError}
    \cup (IF rem[i].State = Absent THEN {"InvalidInstanceID.NotFound"} ELSE {})

\* ec2.start_instances(DryRun=False): the answer and the instance afterwards.
StartAnswers(i, rem) ==
    {[resp |-> EndpointConnectionError, remote |-> rem]} \cup
    (CASE rem[i].State = Absent    -> {[resp |-> "InvalidInstanceID.NotFound", remote |-> rem]}
       [] rem[i].State = "stopped" -> {[resp |-> "ok",
                                        remote |-> [rem EXCEPT ![i].State = "pending"]]}
       [] rem[i].State \in {"pending", "running"} -> {[resp |-> "ok", remote |-> rem]}
       [] OTHER -> {[resp |-> "IncorrectInstanceState", remote |-> rem]})

\* ec2.stop_instances(DryRun=False).
StopAnswers(i, rem) ==
    {[resp |-> EndpointConnectionError, remote |-> rem]} \cup
    (CASE rem[i].State = Absent    -> {[resp |-> "InvalidInstanceID.NotFound", remote |-> rem]}
       [] rem[i].State = "running" -> {[resp |-> "ok",
                                        remote |-> [rem EXCEPT ![i].State = "stopping"]]}
       [] rem[i].State \in {"stopping", "stopped"} -> {[resp |-> "ok", remote |-> rem]}
       [] OTHER -> {[resp |-> "IncorrectInstanceState", remote |-> rem]})

\* waiter instance_running: polls until running; a WaiterError when the
\* attempts are used up or the instance is being terminated.
WaitRunning(i, rem) ==
    {[resp |-> EndpointConnectionError, remote |-> rem]} \cup
    (CASE rem[i].State = "running" -> {[resp |-> "ok", remote |-> rem]}
       [] rem[i].State = "pending" ->
            {[resp |-> "ok", remote |-> [rem EXCEPT ![i].State = "running", ![i].Addr = a]]
                : a \in BOOLEAN}
            \cup {[resp |-> WaiterError, remote |-> rem],
                  [resp |-> WaiterError, remote |-> [rem EXCEPT ![i].State = "shutting-down"]]}
       [] OTHER -> {[resp |-> WaiterError, remote |-> rem]})

\* waiter instance_stopped.
WaitStopped(i, rem) ==
    {[resp |-> EndpointConnectionError, remote |-> rem]} \cup
    (CASE rem[i].State = "stopped" -> {[resp |-> "ok", remote |-> rem]}
       [] rem[i].State = "stopping" ->
            {[resp |-> "ok", remote |-> [rem EXCEPT ![i].State = "stopped", ![i].Addr = FALSE]],
             [resp |-> WaiterError, remote |-> rem]}
       [] OTHER -> {[resp |-> WaiterError, remote |-> rem]})

\* ec2.describe_instances(InstanceIds=[i]): the public address, if any.
DescribeAnswers(i, rem) ==
    {EndpointConnectionError} \cup
    (IF rem[i].State = Absent THEN {"InvalidInstanceID.NotFound"}
     ELSE IF rem[i].Addr THEN {"ip"} ELSE {None})

\* Line 193.
StartNotNeeded(instance) == instance.State \in {"running", "pending"}

\* Line 202 with every ClientError of the dry run swallowed.
StartDryRunReraised_Never(e) == FALSE

\* Line 202: the dry run's ClientError is raised again.
StartDryRunReraised(e) == e # "DryRunOperation"

\* Lines 210-216 without the read of the instance.
StartAfterWait_NoRead(instance, rem, tr) == {Run(tr, "Started", None, rem)}

\* Lines 210-216, after the waiter returned.
StartAfterWait(instance, rem, tr) ==
    {LET t == Append(tr, Ev("describe_instances", "read", d)) IN
     IF d = "ip" THEN Run(t, "Reachable", None, rem)
     ELSE IF d = None THEN Run(t, "Started", None, rem)
     ELSE IF IsClientError(d) THEN Run(t, "ClientErrorPrinted", None, rem)
     ELSE Run(t, None, ExcOf(d), rem)
       : d \in DescribeAnswers(instance.InstanceId, rem)}

\* Lines 205-216, after the dry run passed.
StartAfterDry(instance, rem, tr) ==
    UNION {LET t == Append(tr, Ev("start_instances", "real", a.resp)) IN
           IF a.resp = "ok"
           THEN UNION {LET tw == Append(t, Ev("wait", "instance_running", w.resp)) IN
                       IF w.resp = "ok" THEN StartAfterWait(instance, w.remote, tw)
                       ELSE IF IsClientError(w.resp)
                       THEN {Run(tw, "ClientErrorPrinted", None, w.remote)}
                       ELSE {Run(tw, None, ExcOf(w.resp), w.remote)}
                         : w \in WaitRunning(instance.InstanceId, a.remote)}
           ELSE IF IsClientError(a.resp)
           THEN {Run(t, "ClientErrorPrinted", None, a.remote)}
           ELSE {Run(t, None, ExcOf(a.resp), a.remote)}
             : a \in StartAnswers(instance.InstanceId, rem)}

\* Lines 192-216.
start_instance(instance, rem) ==
    IF StartNotNeeded(instance)
    THEN {Run(<<>>, "NoNeedToStart", None, rem)}
    ELSE UNION {LET t == <<Ev("start_instances", "DryRun", dry)>> IN
                IF ~IsClientError(dry) THEN {Run(t, None, ExcOf(dry), rem)}
                ELSE IF StartDryRunReraised(dry) THEN {Run(t, None, ExcOf(dry), rem)}
                ELSE StartAfterDry(instance, rem, t)
                  : dry \in DryRunAnswers(instance.InstanceId, rem)}

\* Line 226 with the operator's answer ignored.
StopDeclined_Ignored(chosen_confirmation) == FALSE

\* Line 226.
StopDeclined(chosen_confirmation) == ~chosen_confirmation

\* Line 229 with "stopping" forgotten.
StopNotNeeded_OnlyStopped(instance) == instance.State = "stopped"

\* Line 229.
StopNotNeeded(instance) == instance.State \in {"stopped", "stopping"}

\* Line 237.
StopDryRunReraised(e) == e # "DryRunOperation"

\* Lines 239-247 without the waiter of lines 243-244: the handler returns as
\* soon as the stop is accepted.
StopAfterDry_NoWait(instance, rem, tr) ==
    UNION {LET t == Append(tr, Ev("stop_instances", "real", a.resp)) IN
           IF a.resp = "ok" THEN {Run(t, "Stopped", None, a.remote)}
           ELSE IF IsClientError(a.resp)
           THEN {Run(t, "ClientErrorPrinted", None, a.remote)}
           ELSE {Run(t, None, ExcOf(a.resp), a.remote)}
             : a \in StopAnswers(instance.InstanceId, rem)}

\* Lines 239-247, after the dry run passed.
StopAfterDry(instance, rem, tr) ==
    UNION {LET t == Append(tr, Ev("stop_instances", "real", a.resp)) IN
           IF a.resp = "ok"
           THEN {LET tw == Append(t, Ev("wait", "instance_stopped", w.resp)) IN
                 IF w.resp = "ok" THEN Run(tw, "Stopped", None, w.remote)
                 ELSE IF IsClientError(w.resp) THEN Run(tw, "ClientErrorPrinted", None, w.remote)
                 ELSE Run(tw, None, ExcOf(w.resp), w.remote)
                   : w \in WaitStopped(instance.InstanceId, a.remote)}
           ELSE IF IsClientError(a.resp)
           THEN {Run(t, "ClientErrorPrinted", None, a.remote)}
           ELSE {Run(t, None, ExcOf(a.resp), a.remote)}
             : a \in StopAnswers(instance.InstanceId, rem)}

\* Lines 218-247.  A record whose Name is None cannot be put in the prompt.
stop_instance(instance, rem) ==
    IF instance.Name = None THEN {Run(<<>>, None, "TypeError", rem)}
    ELSE UNION {
        LET tc == <<Ev("confirm", "prompt", IF chosen_confirmation THEN "yes" ELSE "no")>> IN
        IF StopDeclined(chosen_confirmation) THEN {Run(tc, "Canceled", None, rem)}
        ELSE IF StopNotNeeded(instance) THEN {Run(tc, "AlreadyStopped", None, rem)}
        ELSE UNION {LET t == Append(tc, Ev("stop_instances", "DryRun", dry)) IN
                    IF ~IsClientError(dry) THEN {Run(t, None, ExcOf(dry), rem)}
                    ELSE IF StopDryRunReraised(dry) THEN {Run(t, None, ExcOf(dry), rem)}
                    ELSE StopAfterDry(instance, rem, t)
                      : dry \in DryRunAnswers(instance.InstanceId, rem)}
          : chosen_confirmation \in BOOLEAN}

\* Lines 563-584: the handler of `action` runs; an exception that leaves it
\* leaves the loop, for the loop has no try around the dispatch.
Dispatch(action, runs) ==
    /\ pc = "ask_action"
    /\ action \in options
    /\ \E run \in runs :
          /\ trace' = run.trace
          /\ result' = run.result
          /\ raised' = run.raised
          /\ remote' = run.remote
          /\ pc' = IF run.raised = None THEN "reload" ELSE "crashed"
    /\ chosen_action' = action
    /\ UNCHANGED <<fleetRegion, ext, GLOBAL_CONFIG, instances, priceLookup, chosen_instance,
                   options>>

Start == Dispatch("Start", start_instance(chosen_instance, remote))

Stop == Dispatch("Stop", stop_instance(chosen_instance, remote))

\* The check of the key file left out.
KeyAvailable_Unchecked(instance) == TRUE

\* Lines 252-253 (and 261-262, 400-402, 416-418, 439): <KeyName>.pem is in keys/.
KeyAvailable(instance) == instance.KeyName \in KeyFiles

KeyCheck(instance) ==
    Ev("os.path.exists", "key", IF KeyAvailable(instance) THEN "True" ELSE "False")

\* Exit codes of an ssh or scp subprocess that matter to the callers.
ExitCodes == {"0", "2"}

\* Lines 249-256.  user@address is a str + None, a TypeError, when the record
\* has no address.
connect_instance(instance) ==
    LET t == <<KeyCheck(instance)>> IN
    IF KeyAvailable(instance)
    THEN IF instance.PublicIpAddress = None
         THEN {Run(t, None, "TypeError", remote)}
         ELSE {Run(Append(t, Ev("ssh", "shell", rc)), "Shell", None, remote)
                 : rc \in ExitCodes}
    ELSE {Run(t, None, "ValueError", remote)}

\* Lines 272-291: the first of three local ports that is free is forwarded to
\* the notebook server the operator picks.  A list prompt without choices
\* cannot be answered: an exception leaves it.
JupyterForward(instance, tr, servers) ==
    {Run(tr, "NoFreePort", None, remote)} \cup
    (IF servers = 0
     THEN {Run(Append(tr, Ev("list", "prompt", "no choices")), None, "Exception", remote)}
     ELSE {Run(tr \o <<Ev("list", "prompt", "server"), Ev("ssh", "forward", "Popen")>>,
               "Tunnel", None, remote)})

\* Lines 258-294.
start_jupyter(instance) ==
    LET t == <<KeyCheck(instance)>> IN
    IF KeyAvailable(instance)
    THEN IF instance.PublicIpAddress = None
         THEN {Run(t, None, "TypeError", remote)}
         ELSE UNION {
              LET t1 == Append(t, Ev("ssh", "jupyter notebook list", "0")) IN
              IF found = 0
              THEN UNION {JupyterForward(instance,
                              t1 \o <<Ev("ssh", "screen jupyter notebook", "0"),
                                      Ev("ssh", "jupyter notebook list", "0")>>, after)
                            : after \in {0, 1}}
              ELSE JupyterForward(instance, t1, found)
                : found \in {0, 1}}
    ELSE {Run(t, None, "ValueError", remote)}

\* Line 346 without the assertion.
ChangeTypeAllowed_Always(instance) == TRUE

\* Line 346.
ChangeTypeAllowed(instance) == instance.State = "stopped"

\* ec2.modify_instance_attribute: the provider changes the type of a stopped
\* instance only.
ModifyAnswers(i, rem, chosen_type) ==
    {[resp |-> EndpointConnectionError, remote |-> rem]} \cup
    (CASE rem[i].State = Absent    -> {[resp |-> "InvalidInstanceID.NotFound", remote |-> rem]}
       [] rem[i].State = "stopped" -> {[resp |-> "ok",
                                        remote |-> [rem EXCEPT ![i].InstanceType = chosen_type]]}
       [] OTHER -> {[resp |-> "IncorrectInstanceState", remote |-> rem]})

\* Lines 345-356.
change_type(instance, rem, available_instances) ==
    IF ~ChangeTypeAllowed(instance)
    THEN {Run(<<>>, None, "AssertionError", rem)}
    ELSE UNION {
         {LET t == <<Ev("list", "prompt", chosen_type),
                     Ev("modify_instance_attribute", "real", a.resp)>> IN
          IF a.resp = "ok" THEN Run(t, "TypeChanged", None, a.remote)
          ELSE Run(t, None, ExcOf(a.resp), a.remote)
            : a \in ModifyAnswers(instance.InstanceId, rem, chosen_type)}
           : chosen_type \in available_instances}

\* ec2.create_tags: sets the Name tag of an instance that exists.
CreateTagsAnswers(i, rem, chosen_name) ==
    {[resp |-> EndpointConnectionError, remote |-> rem]} \cup
    (IF rem[i].State = Absent
     THEN {[resp |-> "InvalidInstanceID.NotFound", remote |-> rem]}
     ELSE {[resp |-> "ok", remote |-> [rem EXCEPT ![i].Tags = chosen_name]]})

\* Lines 358-379.
change_name(instance, rem) ==
    IF instance.Name = None THEN {Run(<<>>, None, "TypeError", rem)}
    ELSE UNION {UNION {
         LET tc == <<Ev("input", "prompt", chosen_name),
                     Ev("confirm", "prompt", IF chosen_confirmation THEN "yes" ELSE "no")>> IN
         IF ~chosen_confirmation THEN {Run(tc, "NameNotChanged", None, rem)}
         ELSE {LET t == Append(tc, Ev("create_tags", "real", a.resp)) IN
               IF a.resp = "ok" THEN Run(t, "NameChanged", None, a.remote)
               ELSE Run(t, None, ExcOf(a.resp), a.remote)
                 : a \in CreateTagsAnswers(instance.InstanceId, rem, chosen_name)}
           : chosen_confirmation \in BOOLEAN}
           : chosen_name \in Names}

\* Lines 399-410, after the operator confirmed and the deploy folder was found.
DeployCopy(instance, tr) ==
    IF instance.PublicIpAddress = None THEN {Run(tr, None, "TypeError", remote)}
    ELSE LET t == Append(tr, KeyCheck(instance)) IN
         IF KeyAvailable(instance)
         THEN UNION {
              LET t1 == Append(t, Ev("ssh", "ls ~/lobot/deploy", ls_returncode))
                  t2 == IF ls_returncode = "2"
                        THEN Append(t1, Ev("ssh", "mkdir ~/lobot/deploy", "0")) ELSE t1
              IN  {Run(Append(t2, Ev("scp", "deploy", rc)),
                       IF rc = "0" THEN "Copied" ELSE "NotCopied", None, remote)
                     : rc \in ExitCodes}
                : ls_returncode \in ExitCodes}
         ELSE {Run(t, None, "ValueError", remote)}

\* Lines 381-410.  The deploy folder exists: the start-up made it (513-516).
deploy(instance) ==
    UNION {
        LET tc == <<Ev("os.listdir", "deploy", "ok"),
                    Ev("confirm", "prompt", IF chosen_confirmation THEN "yes" ELSE "no")>> IN
        IF chosen_confirmation
        THEN DeployCopy(instance, Append(tc, Ev("os.path.exists", "deploy", "True")))
        ELSE {Run(tc, "NotDeployed", None, remote)}
          : chosen_confirmation \in BOOLEAN}

\* Lines 427-442, after the remote fetch folder was listed.
FetchCopy(instance, tr) ==
    UNION {
        LET tc == Append(tr, Ev("confirm", "prompt",
                                IF chosen_confirmation THEN "yes" ELSE "no")) IN
        IF chosen_confirmation
        THEN LET t == tc \o <<Ev("os.path.exists", "fetch", "True"), KeyCheck(instance)>> IN
             IF KeyAvailable(instance)
             THEN {Run(Append(t, Ev("scp", "fetch", rc)), "Fetched", None, remote)
                     : rc \in ExitCodes}
             ELSE {Run(t, None, "ValueError", remote)}
        ELSE {Run(tc, "NotFetched", None, remote)}
          : chosen_confirmation \in BOOLEAN}

\* Lines 413-442.
fetch(instance) ==
    IF instance.PublicIpAddress = None THEN {Run(<<>>, None, "TypeError", remote)}
    ELSE LET t == <<KeyCheck(instance)>> IN
         IF KeyAvailable(instance)
         THEN UNION {
              LET t1 == Append(t, Ev("ssh", "ls ~/lobot/fetch", return_code)) IN
              IF return_code = "2"
              THEN {Run(Append(t1, Ev("ssh", "mkdir ~/lobot/fetch", "0")),
                        "FetchFolderCreated", None, remote)}
              ELSE FetchCopy(instance, t1)
                : return_code \in ExitCodes}
         ELSE {Run(t, None, "ValueError", remote)}

\* Lines 474-489.  A ClientError of describe_images is caught (482).
detailed_info(instance, rem) ==
    UNION {
        LET t == <<Ev("describe_instances", "read", d)>> IN
        IF d \in {"ip", None}
        THEN {Run(Append(t, Ev("describe_images", "read", img)),
                  IF img = "ok" THEN "Details" ELSE "DetailsWithoutImageName", None, rem)
                : img \in {"ok", "InvalidAMIID.NotFound"}}
        ELSE {Run(t, None, ExcOf(d), rem)}
          : d \in DescribeAnswers(instance.InstanceId, rem)}

Shell == Dispatch(SHELL, connect_instance(chosen_instance))

Jupyter == Dispatch(JUPYTER, start_jupyter(chosen_instance))

ChangeType ==
    Dispatch("Change type", change_type(chosen_instance, remote, recommended_instance_types))

ChangeName == Dispatch("Change name", change_name(chosen_instance, remote))

Deploy == Dispatch(DEPLOY, deploy(chosen_instance))

Fetch == Dispatch(FETCH, fetch(chosen_instance))

Details == Dispatch("Details", detailed_info(chosen_instance, remote))

\* Lines 556-557: the only entry of a terminated record's menu has no handler.
Nothing == Dispatch(NOTHING, {Run(<<>>, None, None, remote)})

Next ==
    \/ Refresh
    \/ ChooseInstance
    \/ ChangeRegion
    \/ ChangeUsername
    \/ External
    \/ Reload
    \/ Start
    \/ Stop
    \/ Shell
    \/ Jupyter
    \/ ChangeType
    \/ ChangeName
    \/ Deploy
    \/ Fetch
    \/ Details
    \/ Nothing

Spec == Init /\ [][Next]_vars

\* ------------------------------------------------- the handlers on their own
AllOptions == {"Details", SHELL, JUPYTER, DEPLOY, FETCH, "Change name", "Stop", "Start",
               "Change type", NOTHING}

\* A handler is called with a record of i-1 in any state, with or without an
\* address, whatever the provider's truth is by then.
InitDirect ==
    /\ remote \in InitialFleets
    /\ fleetRegion = "eu-west-1"
    /\ ext = 0
    /\ GLOBAL_CONFIG = [aws_region |-> "eu-west-1", aws_username |-> "ec2-user",
                        load_prices |-> FALSE]
    /\ pc = "ask_action"
    /\ \E st \in ProviderStates, a \in BOOLEAN :
          chosen_instance =
              [Normalize("i-1", remote["i-1"], ZeroDelta) EXCEPT
                  !.State = st, !.PublicIpAddress = IF a THEN "ip" ELSE None]
    /\ instances = <<chosen_instance>>
    /\ priceLookup = NoLookup
    /\ options = AllOptions
    /\ chosen_action = None
    /\ trace = <<>>
    /\ result = None
    /\ raised = None

NextDirect ==
    \/ Start
    \/ Stop
    \/ Shell
    \/ Jupyter
    \/ ChangeType
    \/ ChangeName
    \/ Deploy
    \/ Fetch
    \/ Details
    \/ Nothing

SpecDirect == InitDirect /\ [][NextDirect]_vars

\* ------------------------------------------- the priced fetch on its own
\* get_current_instances(include_prices=True) is called once for a fleet of
\* up to two instances of any types, in a region with a readable name.
InitPrices ==
    /\ remote \in {f \in [Ids -> RemoteRecords] :
                     \A i \in Ids : /\ f[i].State \in {"running", "stopped", Absent}
                                    /\ ~f[i].Addr
                                    /\ f[i].KeyName = "demo"
                                    /\ f[i].Tags = NoTags}
    /\ fleetRegion = "eu-west-1"
    /\ ext = 0
    /\ GLOBAL_CONFIG = [aws_region |-> "eu-west-1", aws_username |-> "ec2-user",
                        load_prices |-> TRUE]
    /\ pc = "refresh"
    /\ instances = <<>>
    /\ priceLookup = NoLookup
    /\ chosen_instance = NoRecord
    /\ options = {}
    /\ chosen_action = None
    /\ trace = <<>>
    /\ result = None
    /\ raised = None

\* Line 525 alone.  trace keeps the price queries of line 98 with the answer
\* to each.
PriceFetch ==
    /\ pc = "refresh"
    /\ \E up \in UpChoices(GLOBAL_CONFIG.aws_region) :
       \E catalog \in CatalogChoices(GLOBAL_CONFIG.load_prices, GLOBAL_CONFIG.aws_region) :
          LET g == get_current_instances(GLOBAL_CONFIG.load_prices, GLOBAL_CONFIG.aws_region,
                                         "ok", up, catalog)
          IN  /\ instances' = g.instances
              /\ priceLookup' = g.lookup
              /\ trace' = [k \in 1..Len(g.lookup.queries) |->
                             Ev("get_products", g.lookup.queries[k],
                                catalog[g.lookup.queries[k]])]
              /\ raised' = g.raised
    /\ pc' = "fetched"
    /\ UNCHANGED <<envVars, GLOBAL_CONFIG, chosen_instance, options, chosen_action, result>>

NextPrices == PriceFetch

SpecPrices == InitPrices /\ [][NextPrices]_vars

\* ================================================================ claims
\* A handler was dispatched and has returned or raised.
Dispatched(action) == chosen_action = action /\ pc \in {"reload", "crashed"}

IsProviderCall(e) ==
    e.op \in {"start_instances", "stop_instances", "wait", "describe_instances",
              "describe_images", "modify_instance_attribute", "create_tags"}

IsSubprocess(e) == e.op \in {"ssh", "scp"}

ProviderCalls == SelectSeq(trace, IsProviderCall)

Ops == [k \in 1..Len(trace) |-> <<trace[k].op, trace[k].mode>>]

\* The state column of the action-validity table.
TableActions(inst) ==
    CASE inst.State = "running" /\ inst.PublicIpAddress # None
            -> {SHELL, JUPYTER, DEPLOY, FETCH, "Change name", "Stop", "Details"}
      [] inst.State = "running" /\ inst.PublicIpAddress = None -> {"Details"}
      [] inst.State = "stopped" -> {"Start", "Change name", "Change type", "Details"}
      [] inst.State \in {"pending", "stopping", "shutting-down"} -> {"Details"}
      [] inst.State = "terminated" -> {}

\* C1: for every observed state the menu offers exactly the actions of the
\* action-validity table (the entry "Nothing to do here." is no action).
C1_MenuMatchesTable ==
    pc = "ask_action" => options \ {NOTHING} = TableActions(chosen_instance)

\* C2: no failure of a dispatched action ends the session loop.
C2_LoopSurvivesActionFailure ==
    chosen_action # None => pc # "crashed"

\* C3: start on a record that is running or pending, and a confirmed stop on
\* a record that is stopped or stopping, issue no provider call at all.
C3_NoCallWhenAlreadyThere ==
    /\ (Dispatched("Start") /\ chosen_instance.State \in {"running", "pending"})
          => ProviderCalls = <<>>
    /\ (Dispatched("Stop") /\ chosen_instance.State \in {"stopped", "stopping"})
          => ProviderCalls = <<>>

C3_Witness ==
    /\ Dispatched("Stop")
    /\ chosen_instance.State = "stopping"
    /\ trace = <<Ev("confirm", "prompt", "yes")>>
    /\ result = "AlreadyStopped"

\* C4: in start and stop the real call comes right after a dry run that
\* answered DryRunOperation; a dry run that answered anything else ends the
\* action with that error and nothing is called after it.
C4_RealOnlyAfterDryRun ==
    (Dispatched("Start") \/ Dispatched("Stop")) =>
        \A k \in 1..Len(trace) :
            /\ (trace[k].op \in {"start_instances", "stop_instances"} /\ trace[k].mode = "real")
                  => /\ k > 1
                     /\ trace[k - 1] = Ev(trace[k].op, "DryRun", "DryRunOperation")
            /\ (trace[k].mode = "DryRun" /\ trace[k].resp # "DryRunOperation")
                  => /\ k = Len(trace)
                     /\ raised = ExcOf(trace[k].resp)

C4_Witness ==
    /\ Dispatched("Start")
    /\ trace = <<Ev("start_instances", "DryRun", "UnauthorizedOperation")>>
    /\ raised = "ClientError"

\* C5: stop asks for confirmation before anything else; when the operator
\* declines, nothing is called, whatever the state of the record, and the
\* action ends as canceled, without an error.
C5_DeclinedStopCallsNothing ==
    Dispatched("Stop") =>
        /\ trace # <<>> => trace[1].op = "confirm"
        /\ (trace # <<>> /\ trace[1] = Ev("confirm", "prompt", "no"))
              => /\ Len(trace) = 1
                 /\ result = "Canceled"
                 /\ raised = None

C5_Witness ==
    /\ Dispatched("Stop")
    /\ chosen_instance.State = "running"
    /\ trace = <<Ev("confirm", "prompt", "no")>>
    /\ result = "Canceled"

\* C6: a wait that runs out after an accepted start or stop is a result of
\* the action: no exception leaves start_instance or stop_instance and the
\* session loop goes on.
C6_TimeoutIsNotFatal ==
    ((Dispatched("Start") \/ Dispatched("Stop"))
        /\ trace # <<>>
        /\ trace[Len(trace)] \in {Ev("wait", m, WaiterError)
                                    : m \in {"instance_running", "instance_stopped"}})
    => (raised = None /\ pc # "crashed")

\* C7: change_type fails with the invalid-state error (the assertion) exactly
\* when the record is not stopped, and then it has called nothing.
C7_ChangeTypeOnlyWhenStopped ==
    Dispatched("Change type") =>
        /\ (raised = "AssertionError") <=> (chosen_instance.State # "stopped")
        /\ chosen_instance.State # "stopped" => trace = <<>>

C7_Witness ==
    /\ Dispatched("Change type")
    /\ chosen_instance.State = "running"
    /\ raised = "AssertionError"

KeyActions == {SHELL, JUPYTER, DEPLOY, FETCH}

KeyMissing == chosen_instance.KeyName \notin KeyFiles

NoSubprocess == \A k \in 1..Len(trace) : ~IsSubprocess(trace[k])

C9_UnknownRegionFails ==
    (priceLookup.called /\ ~RegionKnown(priceLookup.region))
        => (priceLookup.raised = "KeyError" /\ priceLookup.queries = <<>>)

Succeeded(e) ==
    CASE e.mode = "DryRun" -> e.resp = "DryRunOperation"
      [] e.op = "describe_instances" -> e.resp \in {"ip", None}
      [] OTHER -> e.resp = "ok"

\* C10: start on a stopped record, with nothing denied, is one dry-run start,
\* one real start, the wait for running and one read of the instance, in
\* that order and nothing else; the address is reported if there is one.
C10_StartSequence ==
    (Dispatched("Start") /\ chosen_instance.State = "stopped"
        /\ \A k \in 1..Len(trace) : Succeeded(trace[k]))
    => /\ Ops = << <<"start_instances", "DryRun">>, <<"start_instances", "real">>,
                   <<"wait", "instance_running">>, <<"describe_instances", "read">> >>
       /\ raised = None
       /\ result = IF trace[4].resp = "ip" THEN "Reachable" ELSE "Started"

C10_Witness ==
    /\ Dispatched("Start")
    /\ chosen_instance.State = "stopped"
    /\ Len(trace) = 4
    /\ trace[4] = Ev("describe_instances", "read", "ip")
    /\ result = "Reachable"


\* The provider calls that change the fleet.
IsMutating(e) ==
    /\ e.op \in {"start_instances", "stop_instances", "modify_instance_attribute",
                 "create_tags"}
    /\ e.mode = "real"

\* The handler of an iteration has made at most one mutating call, and one
\* that started or stopped the instance was followed by its waiter, whose
\* answer the handler had before it ended.
NoMutationInFlight ==
    /\ trace # <<>> => chosen_action # None
    /\ Cardinality({k \in 1..Len(trace) : IsMutating(trace[k])}) <= 1
    /\ \A k \in 1..Len(trace) :
          (/\ IsMutating(trace[k])
           /\ trace[k].op \in {"start_instances", "stop_instances"}
           /\ trace[k].resp = "ok")
          => /\ k < Len(trace)
             /\ trace[k + 1].op = "wait"

\* A step in which a handler runs begins with no handler run yet in this
\* iteration.
OneActionPerIteration ==
    (/\ chosen_action' # None
     /\ <<chosen_action, trace, result, raised>>' # <<chosen_action, trace, result, raised>>)
    => chosen_action = None

\* C11: the session loop is strictly serial: an iteration runs at most one
\* handler, and a handler that made a mutating provider call has returned
\* from the call and from its wait before the loop goes on, so no two
\* mutating actions are in flight together.
C11_StrictlySerial == []NoMutationInFlight /\ [][OneActionPerIteration]_vars

\* A stop that was accepted and waited for before the handler returned.
C11_Witness ==
    /\ Dispatched("Stop")
    /\ pc = "reload"
    /\ Len(trace) = 4
    /\ IsMutating(trace[3])
    /\ trace[3].resp = "ok"
    /\ trace[4] = Ev("wait", "instance_stopped", "ok")
    /\ remote[chosen_instance.InstanceId].State = "stopped"

C14_AddressActionsNeedRunningWithAddress ==
    \A action \in KeyActions :
        Dispatched(action) =>
            /\ chosen_instance.State = "running"
            /\ chosen_instance.PublicIpAddress # None

\* The tunnel was opened for a running record with an address.
C14_Witness ==
    /\ Dispatched(JUPYTER)
    /\ chosen_instance.State = "running"
    /\ chosen_instance.PublicIpAddress = "ip"
    /\ \E k \in 1..Len(trace) : trace[k].op = "ssh"


\* What the provider holds of a record's instance is what the record says
\* (uptime and price apart, which no action changes).
MatchesProvider(inst) ==
    /\ remote[inst.InstanceId].State # Absent
    /\ [inst EXCEPT !.Uptime = <<0, 0>>, !.pricePerUnit = <<>>]
         = [Normalize(inst.InstanceId, remote[inst.InstanceId], ZeroDelta)
              EXCEPT !.Uptime = <<0, 0>>]

\* C15: records are never patched locally and never kept over an action: at
\* the instance prompt and at the action prompt the records are those of a
\* directory fetch made after the last action returned, so, as long as nobody
\* else has changed the fleet since that fetch, they show what the last
\* action did to the provider; the menu and the record handed to the next
\* handler are built from them.
C15_RecordsFetchedAfterLastAction ==
    (pc \in {"ask_instance", "ask_action"} /\ ext = 0) =>
        /\ Len(instances) = Len(Listed(GLOBAL_CONFIG.aws_region))
        /\ \A k \in 1..Len(instances) : MatchesProvider(instances[k])
        /\ pc = "ask_action" =>
              /\ \E k \in 1..Len(instances) : chosen_instance = instances[k]
              /\ options = Menu(chosen_instance)

\* The action prompt for i-1 after its type was changed: the session began
\* with i-1 of type t3.nano, the record shows t3.micro.
C15_Witness ==
    /\ pc = "ask_action"
    /\ ext = 0
    /\ chosen_instance.InstanceId = "i-1"
    /\ chosen_instance.InstanceType = "t3.micro"
    /\ chosen_instance.State = "stopped"
    /\ "Change type" \in options


\* The on-demand prices other than zero in the answers to the price queries
\* for one instance type.
CatalogPrices(t) ==
    {trace[k].resp.PriceList[j].USD :
        <<k, j>> \in {x \in (1..Len(trace)) \X (1..MaxProducts) :
                        /\ trace[x[1]].mode = t
                        /\ x[2] <= Len(trace[x[1]].resp.PriceList)
                        /\ trace[x[1]].resp.PriceList[x[2]].OnDemand
                        /\ trace[x[1]].resp.PriceList[x[2]].USD # 0}}

\* C13: when every price query is answered, the fetch returns every listed
\* instance; a record whose type has no entry in the catalog, none at all or
\* none on demand at a price other than zero, has no price fields (never a
\* zero price), and a record of a type with such an entry has that type's
\* price.
C13_PriceMerge ==
    (pc = "fetched" /\ \A k \in 1..Len(trace) : trace[k].resp.error = None) =>
        /\ raised = None
        /\ Len(instances) = Len(Listed(GLOBAL_CONFIG.aws_region))
        /\ \A k \in 1..Len(instances) :
              /\ instances[k].InstanceId = Listed(GLOBAL_CONFIG.aws_region)[k]
              /\ IF CatalogPrices(instances[k].InstanceType) = {}
                 THEN instances[k].pricePerUnit = <<>>
                 ELSE \E usd \in CatalogPrices(instances[k].InstanceType) :
                         instances[k].pricePerUnit = <<usd>>

\* Two instances of different types: the catalog prices the first type and
\* has only a zero-price entry for the second.
C13_Witness ==
    /\ pc = "fetched"
    /\ raised = None
    /\ Len(instances) = 2
    /\ Len(trace) = 2
    /\ trace[2].resp.error = None
    /\ Len(trace[2].resp.PriceList) = 1
    /\ trace[2].resp.PriceList[1].OnDemand
    /\ trace[2].resp.PriceList[1].USD = 0
    /\ instances[1].pricePerUnit = <<5>>
    /\ instances[2].pricePerUnit = <<>>

====
